---- MODULE Spec2Model ----
(***************************************************************************)
(* Job lifecycle manager of server.js: the in-memory job registry, the     *)
(* setTimeout/setInterval callbacks that drive each job, the route table   *)
(* and the HTTP handlers (submit, get, list, delete, stats).               *)
(*                                                                         *)
(* hist is a history variable: for each submission, the status values its  *)
(* record has taken, ending in "deleted" once the record has left the      *)
(* registry.                                                               *)
(*                                                                         *)
(* Node runs every handler and every timer callback to completion on one   *)
(* thread, so each of them is one atomic action.  Timers are untimed: a    *)
(* registered callback may fire at any later step.                         *)
(***************************************************************************)
EXTENDS Integers, Sequences, FiniteSets, TLC

VARIABLES jobs, timers, now, hist

vars == <<jobs, timers, now, hist>>

----------------------------------------------------------------------------
(* Bounds of the model *)

MaxSubmits == 2

MaxClock == 1

(* Submissions in the runs that fill the registry for the statistics *)
MaxBatch == 3

(* Program constants *)

ProgressCap == 100

MaxIncrement == 20

DefaultLimit == 50

----------------------------------------------------------------------------
(* Values *)

Null == <<>>

(* req.body.toolkit: two of the toolkit names, or absent *)
Toolkits == {"molecular_dynamics", "retrosynthesis"}

(* req.body.config: an opaque object, or absent *)
Configs == {"config"}

(* Outcomes of Math.random().toString(36).substr(2, 9) *)
RandomSuffixes == {"k3x9", "p0a7"}

(* Outcomes of Math.random() * 20, a float in [0, 20), on an integer grid *)
Increments == {0, MaxIncrement - 1}

Min(a, b) == IF a < b THEN a ELSE b

(* `job_${Date.now()}_${Math.random().toString(36).substr(2, 9)}` *)
MakeJobId(t, suffix) == <<"job", t, suffix>>

(* jobs.findIndex(j => j.id === jobId): the first index, 0 for -1 *)
FindIndex(js, jobId) ==
    IF \E i \in 1..Len(js) : js[i].id = jobId
    THEN CHOOSE i \in 1..Len(js) :
            /\ js[i].id = jobId
            /\ \A k \in 1..(i - 1) : js[k].id # jobId
    ELSE 0

(* jobs.filter(j => j.status === s).length *)
CountStatus(js, s) == Cardinality({i \in 1..Len(js) : js[i].status = s})

(* jobs.splice(jobIndex, 1) *)
Splice(js, i) == [k \in 1..(Len(js) - 1) |-> IF k < i THEN js[k] ELSE js[k + 1]]

(* generateMockResults(toolkit): an opaque payload chosen by the toolkit *)
generateMockResults(toolkit) == <<"results", toolkit>>

----------------------------------------------------------------------------
(* Route table, in registration order, and first-match dispatch *)

Seg(s) == <<s>>

Param(name) == <<":", name>>

IsParam(seg) == Len(seg) = 2 /\ seg[1] = ":"

ApiV1(rest) == <<Seg("api"), Seg("v1")>> \o rest

Routes ==
    << [method |-> "GET",    path |-> <<Seg("api"), Seg("health")>>,          handler |-> "health"],
       [method |-> "POST",   path |-> ApiV1(<<Seg("jobs"), Seg("submit")>>),   handler |-> "submitJob"],
       [method |-> "GET",    path |-> ApiV1(<<Seg("jobs"), Param("jobId")>>),  handler |-> "getJob"],
       [method |-> "GET",    path |-> ApiV1(<<Seg("jobs"), Seg("list")>>),     handler |-> "listJobs"],
       [method |-> "DELETE", path |-> ApiV1(<<Seg("jobs"), Param("jobId")>>),  handler |-> "deleteJob"],
       [method |-> "GET",    path |-> ApiV1(<<Seg("stats")>>),                 handler |-> "stats"],
       [method |-> "GET",    path |-> <<>>,                                    handler |-> "index"] >>

(* A route matches a request when the methods agree and every segment of   *)
(* its path is a parameter or equals the request's segment.                *)
Matches(route, method, path) ==
    /\ route.method = method
    /\ Len(route.path) = Len(path)
    /\ \A i \in 1..Len(path) : IsParam(route.path[i]) \/ route.path[i] = path[i]

(* The handler of the first matching route; the 404 middleware otherwise.  *)
(* jobId is the :jobId segment when the route has one.                     *)
Dispatch(method, path) ==
    IF \E i \in 1..Len(Routes) : Matches(Routes[i], method, path)
    THEN LET i == CHOOSE k \in 1..Len(Routes) :
                     /\ Matches(Routes[k], method, path)
                     /\ \A m \in 1..(k - 1) : ~Matches(Routes[m], method, path)
         IN [handler |-> Routes[i].handler,
             jobId   |-> IF Len(path) = 4 /\ IsParam(Routes[i].path[4])
                         THEN path[4] ELSE <<>>]
    ELSE [handler |-> "notFound", jobId |-> <<>>]

----------------------------------------------------------------------------
(* Handlers: each yields the registry, the timers and the response after it *)

Truthy(obj, field) == field \in DOMAIN obj /\ obj[field] # ""

(* res.status(status).json(body); message is the body's message or error *)
Reply(js, ts, status, message, body) ==
    [jobs |-> js, timers |-> ts, status |-> status, message |-> message,
     body |-> body]

(* new Date().toISOString() *)
ISOString(t) == <<t>>

(* The record of the submit handler with the position taken from the      *)
(* length of the registry instead of the number of queued jobs             *)
NewJobByLength(body, jobId, obj) ==
    [obj            |-> obj,
     id             |-> jobId,
     toolkit        |-> body.toolkit,
     config         |-> body.config,
     status         |-> "queued",
     progress       |-> 0,
     created_at     |-> ISOString(now),
     started_at     |-> Null,
     completed_at   |-> Null,
     queue_position |-> Len(jobs) + 1]

(* The record built by the submit handler.  obj is the identity of the     *)
(* JavaScript object (the ordinal of the submission), not a field of it.   *)
(* input_files, priority and estimated_completion are written here and     *)
(* never read or written again; the model leaves them out.                 *)
NewJob(body, jobId, obj) ==
    [obj            |-> obj,
     id             |-> jobId,
     toolkit        |-> body.toolkit,
     config         |-> body.config,
     status         |-> "queued",
     progress       |-> 0,
     created_at     |-> ISOString(now),
     started_at     |-> Null,
     completed_at   |-> Null,
     queue_position |-> CountStatus(jobs, "queued") + 1]

(* app.post('/api/v1/jobs/submit'); suffix is the outcome of Math.random() *)
submitJob(body, suffix) ==
    IF ~Truthy(body, "toolkit") \/ ~Truthy(body, "config")
    THEN Reply(jobs, timers, 400, "Missing required fields: toolkit and config", Null)
    ELSE LET jobId == MakeJobId(now, suffix)
             job == NewJob(body, jobId, Len(timers) + 1)
         IN Reply(Append(jobs, job),
                  Append(timers, [kind |-> "timeout", jobId |-> jobId,
                                  toolkit |-> body.toolkit]),
                  201, "", job)

(* app.get('/api/v1/jobs/:jobId') *)
getJob(jobId) ==
    IF FindIndex(jobs, jobId) = 0
    THEN Reply(jobs, timers, 404, "Job not found", Null)
    ELSE Reply(jobs, timers, 200, "", jobs[FindIndex(jobs, jobId)])

(* The delete handler without the return of the not-found branch: findIndex *)
(* yields -1 and splice(-1, 1) takes the last record out                    *)
deleteJobUnchecked(jobId) ==
    LET jobIndex == FindIndex(jobs, jobId)
    IN IF jobIndex = 0
       THEN Reply(IF jobs = <<>> THEN jobs ELSE Splice(jobs, Len(jobs)), timers,
                  404, "Job not found", Null)
       ELSE IF jobs[jobIndex].status = "running"
            THEN LET cancelled == [jobs EXCEPT ![jobIndex].status = "cancelled"]
                 IN Reply(cancelled, timers, 200, "Job cancelled", cancelled[jobIndex])
            ELSE Reply(Splice(jobs, jobIndex), timers, 200, "Job deleted", Null)

(* app.delete('/api/v1/jobs/:jobId') *)
deleteJob(jobId) ==
    LET jobIndex == FindIndex(jobs, jobId)
    IN IF jobIndex = 0
       THEN Reply(jobs, timers, 404, "Job not found", Null)
       ELSE IF jobs[jobIndex].status = "running"
            THEN LET cancelled == [jobs EXCEPT ![jobIndex].status = "cancelled"]
                 IN Reply(cancelled, timers, 200, "Job cancelled", cancelled[jobIndex])
            ELSE Reply(Splice(jobs, jobIndex), timers, 200, "Job deleted", Null)

Digits == {"0", "1", "2", "3", "4", "5", "6", "7", "8", "9"}

DigitValue(c) ==
    CASE c = "0" -> 0 [] c = "1" -> 1 [] c = "2" -> 2 [] c = "3" -> 3 [] c = "4" -> 4
      [] c = "5" -> 5 [] c = "6" -> 6 [] c = "7" -> 7 [] c = "8" -> 8 [] c = "9" -> 9

(* The value of the longest prefix of digits of str, read after acc *)
RECURSIVE ParseDigits(_, _)
ParseDigits(str, acc) ==
    IF str = <<>> \/ Head(str) \notin Digits THEN acc
    ELSE ParseDigits(Tail(str), 10 * acc + DigitValue(Head(str)))

(* parseInt(str) on a string given as its characters: an optional sign,    *)
(* then the longest prefix of digits; NaN when there is no digit.          *)
ParseInt(str) ==
    LET signed == str # <<>> /\ Head(str) \in {"-", "+"}
        digits == IF signed THEN Tail(str) ELSE str
        value  == ParseDigits(digits, 0)
    IN IF digits = <<>> \/ Head(digits) \notin Digits
       THEN [nan |-> TRUE, value |-> 0]
       ELSE [nan |-> FALSE,
             value |-> IF signed /\ Head(str) = "-" THEN 0 - value ELSE value]

(* Array.prototype.slice(0, end): NaN counts as 0, a negative end counts   *)
(* from the back, and the end is clamped to the length.                    *)
Slice(js, end) ==
    LET relativeEnd == IF end.nan THEN 0 ELSE end.value
        final == IF relativeEnd < 0
                 THEN (IF Len(js) + relativeEnd < 0 THEN 0 ELSE Len(js) + relativeEnd)
                 ELSE Min(relativeEnd, Len(js))
    IN SubSeq(js, 1, final)

(* const { status, toolkit, limit = 50 } = req.query; parseInt(limit) *)
LimitOf(query) ==
    IF "limit" \in DOMAIN query
    THEN ParseInt(query.limit)
    ELSE [nan |-> FALSE, value |-> DefaultLimit]

(* The jobs that pass the status and toolkit filters of the list handler *)
FilteredJobs(js, query) ==
    LET byStatus == IF Truthy(query, "status")
                    THEN LET keep(j) == j.status = query.status IN SelectSeq(js, keep)
                    ELSE js
    IN IF Truthy(query, "toolkit")
       THEN LET keep(j) == j.toolkit = query.toolkit IN SelectSeq(byStatus, keep)
       ELSE byStatus

(* app.get('/api/v1/jobs/list') *)
listJobs(query) ==
    LET filteredJobs == Slice(FilteredJobs(jobs, query), LimitOf(query))
    IN Reply(jobs, timers, 200, "",
             [total |-> Len(filteredJobs), jobs |-> filteredJobs])

(* The rate cut off after two decimals instead of rounded, in hundredths *)
SuccessRateTruncated(completed, total) == (10000 * completed) \div total

(* (x * 100).toFixed(2) of x = completed / total, in hundredths *)
SuccessRate(completed, total) == (2 * 10000 * completed + total) \div (2 * total)

(* app.get('/api/v1/stats') *)
stats ==
    Reply(jobs, timers, 200, "",
          [total_jobs   |-> Len(jobs),
           completed    |-> CountStatus(jobs, "completed"),
           running      |-> CountStatus(jobs, "running"),
           queued       |-> CountStatus(jobs, "queued"),
           failed       |-> CountStatus(jobs, "failed"),
           success_rate |-> IF Len(jobs) > 0
                            THEN SuccessRate(CountStatus(jobs, "completed"), Len(jobs))
                            ELSE 10000])

(* app.use((req, res) => res.status(404)...) *)
notFound == Reply(jobs, timers, 404, "Endpoint not found", Null)

----------------------------------------------------------------------------
(* History of the status values of each submission's record *)

StatusOf(js, obj) ==
    IF \E i \in 1..Len(js) : js[i].obj = obj
    THEN js[CHOOSE i \in 1..Len(js) : js[i].obj = obj].status
    ELSE "deleted"

Observe(h, js, submissions) ==
    [obj \in 1..submissions |->
        LET before == IF obj \in DOMAIN h THEN h[obj] ELSE <<>>
            seen   == StatusOf(js, obj)
        IN IF before # <<>> /\ before[Len(before)] = seen
           THEN before
           ELSE Append(before, seen)]

----------------------------------------------------------------------------
(* Timer callbacks *)

(* The progress update without Math.min: the sum is not clamped *)
NextProgressUnclamped(progress, increment) == progress + increment

(* Math.min(currentJob.progress + Math.random() * 20, 100) *)
NextProgress(progress, increment) == Min(progress + increment, ProgressCap)

(* currentJob.results = ... adds the property to the object *)
SetResults(job, results) == ("results" :> results) @@ job

(* The job after a tick that found it running *)
TickJob(job, increment, toolkit) ==
    LET progressed == [job EXCEPT !.progress = NextProgress(job.progress, increment)]
    IN IF progressed.progress >= ProgressCap
       THEN SetResults([progressed EXCEPT !.status = "completed",
                                          !.completed_at = ISOString(now)],
                       generateMockResults(toolkit))
       ELSE progressed

(* The setTimeout callback writing to the head of the registry instead of  *)
(* the record it found                                                     *)
startCallbackAtHead(h) ==
    LET jobIndex == FindIndex(jobs, timers[h].jobId)
    IN IF jobIndex # 0
       THEN [jobs   |-> [jobs EXCEPT ![1].status = "running",
                                     ![1].started_at = ISOString(now)],
             timers |-> [timers EXCEPT ![h].kind = "interval"]]
       ELSE [jobs |-> jobs, timers |-> [timers EXCEPT ![h].kind = "fired"]]

(* What the setTimeout callback of submission h leaves *)
startCallback(h) ==
    LET jobIndex == FindIndex(jobs, timers[h].jobId)
    IN IF jobIndex # 0
       THEN [jobs   |-> [jobs EXCEPT ![jobIndex].status = "running",
                                     ![jobIndex].started_at = ISOString(now)],
             timers |-> [timers EXCEPT ![h].kind = "interval"]]
       ELSE [jobs |-> jobs, timers |-> [timers EXCEPT ![h].kind = "fired"]]

(* What the setInterval callback of submission h leaves; increment is the  *)
(* outcome of Math.random() * 20                                          *)
tickCallback(h, increment) ==
    LET index == FindIndex(jobs, timers[h].jobId)
    IN IF index # 0 /\ jobs[index].status = "running"
       THEN LET ticked == TickJob(jobs[index], increment, timers[h].toolkit)
            IN [jobs   |-> [jobs EXCEPT ![index] = ticked],
                timers |-> IF ticked.status = "completed"
                           THEN [timers EXCEPT ![h].kind = "cleared"]
                           ELSE timers]
       ELSE [jobs |-> jobs, timers |-> [timers EXCEPT ![h].kind = "cleared"]]

(* The one-shot start timer of submission h fires *)
StartTimer(h) ==
    /\ h \in DOMAIN timers
    /\ timers[h].kind = "timeout"
    /\ jobs' = startCallback(h).jobs
    /\ timers' = startCallback(h).timers
    /\ hist' = Observe(hist, jobs', Len(timers'))
    /\ UNCHANGED now

(* The periodic timer of submission h fires *)
ProgressTick(h, increment) ==
    /\ h \in DOMAIN timers
    /\ timers[h].kind = "interval"
    /\ jobs' = tickCallback(h, increment).jobs
    /\ timers' = tickCallback(h, increment).timers
    /\ hist' = Observe(hist, jobs', Len(timers'))
    /\ UNCHANGED now

----------------------------------------------------------------------------
(* HTTP requests *)

JobsPath(last) == ApiV1(<<Seg("jobs"), last>>)

(* Express runs the handler of the first matching route *)
Respond(method, path, body, query, suffix) ==
    LET d == Dispatch(method, path)
    IN [handler |-> d.handler] @@
       CASE d.handler = "submitJob" -> submitJob(body, suffix)
         [] d.handler = "getJob"    -> getJob(d.jobId)
         [] d.handler = "listJobs"  -> listJobs(query)
         [] d.handler = "deleteJob" -> deleteJob(d.jobId)
         [] d.handler = "stats"     -> stats
         [] OTHER                   -> notFound

(* The state after the response: what the handler left in the registry and *)
(* in the timer table                                                      *)
Handle(method, path, body, query, suffix) ==
    LET out == Respond(method, path, body, query, suffix)
    IN /\ Len(out.timers) <= MaxSubmits
       /\ jobs' = out.jobs
       /\ timers' = out.timers
       /\ hist' = Observe(hist, jobs', Len(timers'))
       /\ UNCHANGED now

(* Request inputs *)
Bodies ==
    [toolkit : Toolkits, config : Configs]
        \cup {[toolkit |-> "retrosynthesis"], [config |-> "config"]}

JobIds == {MakeJobId(t, suffix) : t \in 0..MaxClock, suffix \in RandomSuffixes}

Statuses == {"queued", "running", "completed", "failed", "cancelled"}

LimitStrings == {<<"1">>, <<"2">>, <<"1", "0">>, <<"a", "b", "c">>, <<"2", "x">>, <<>>, <<"-", "1">>}

(* The queries the list requests of the model carry *)
ListQueries == {<<>>, [limit |-> <<"1">>]}

Queries ==
    {<<>>} \cup [status : Statuses] \cup [toolkit : Toolkits]
        \cup [status : Statuses, toolkit : Toolkits]
        \cup [limit : LimitStrings]
        \cup [status : Statuses, limit : LimitStrings]

SubmitRequest(body, suffix) ==
    Handle("POST", JobsPath(Seg("submit")), body, <<>>, suffix)

GetRequest(jobId) ==
    Handle("GET", JobsPath(jobId), <<>>, <<>>, "")

ListRequest(query) ==
    Handle("GET", JobsPath(Seg("list")), <<>>, query, "")

DeleteRequest(jobId) ==
    Handle("DELETE", JobsPath(jobId), <<>>, <<>>, "")

StatsRequest ==
    Handle("GET", ApiV1(<<Seg("stats")>>), <<>>, <<>>, "")

----------------------------------------------------------------------------
Init ==
    /\ jobs = <<>>
    /\ timers = <<>>
    /\ now = 0
    /\ hist = <<>>

(* Date.now() / new Date() move on between callbacks *)
ClockAdvance ==
    /\ now < MaxClock
    /\ now' = now + 1
    /\ UNCHANGED <<jobs, timers, hist>>

Next ==
    \/ ClockAdvance
    \/ \E body \in Bodies, suffix \in RandomSuffixes : SubmitRequest(body, suffix)
    \/ \E jobId \in JobIds : GetRequest(jobId)
    \/ \E query \in ListQueries : ListRequest(query)
    \/ \E jobId \in JobIds : DeleteRequest(jobId)
    \/ StatsRequest
    \/ \E h \in 1..Len(timers) : StartTimer(h)
    \/ \E h \in 1..Len(timers), increment \in Increments : ProgressTick(h, increment)

Spec == Init /\ [][Next]_vars

(* Node fires every registered timer callback; the fairness on the tick is *)
(* on a tick whose increment is the largest of the model, so that a run in *)
(* which Math.random() yields 0 for ever is not a fair one.                *)
Fairness ==
    \A h \in 1..MaxSubmits :
        /\ WF_vars(StartTimer(h))
        /\ WF_vars(ProgressTick(h, MaxIncrement - 1))

FairSpec == Spec /\ Fairness

----------------------------------------------------------------------------
(* Vocabulary of the properties *)

Objs == DOMAIN hist

Present(obj) == \E i \in 1..Len(jobs) : jobs[i].obj = obj

IndexOf(js, obj) == CHOOSE i \in 1..Len(js) : js[i].obj = obj

Record(obj) == jobs[IndexOf(jobs, obj)]

HasResults(job) == "results" \in DOMAIN job

Range(seq) == {seq[i] : i \in 1..Len(seq)}

IsPrefix(s, t) == Len(s) <= Len(t) /\ \A i \in 1..Len(s) : s[i] = t[i]

(* The status values a record took while it was in the registry *)
InRegistry(h) == IF h[Len(h)] = "deleted" THEN SubSeq(h, 1, Len(h) - 1) ELSE h

Lifecycles ==
    {<<"queued", "running", "completed">>,
     <<"queued", "running", "cancelled">>,
     <<"queued", "running", "failed">>}

(* The step is a tick callback *)
TickStep == \E h \in DOMAIN timers, increment \in Increments : ProgressTick(h, increment)

(* The step is a delete request for jobId *)
DeleteStep(jobId) == DeleteRequest(jobId)

----------------------------------------------------------------------------
(* C1: the status values a job takes while it is in the registry are a      *)
(* prefix of queued, running, completed / cancelled / failed: no regression *)
(* and no change after a terminal status.                                   *)
C1_StatusLifecycle ==
    \A obj \in Objs : \E l \in Lifecycles : IsPrefix(InRegistry(hist[obj]), l)

(* C2: a delete on a running job leaves it cancelled and in the registry,   *)
(* and from then on no tick callback changes the record.                    *)
C2_CancelledFrozen ==
    [][ /\ \A jobId \in JobIds :
            LET i == FindIndex(jobs, jobId)
            IN (i # 0 /\ DeleteStep(jobId)) =>
                  (jobs[i].status = "running" =>
                      /\ Len(jobs') = Len(jobs)
                      /\ jobs'[i].status = "cancelled")
        /\ \A obj \in Objs :
            ("cancelled" \in Range(hist[obj]) /\ Present(obj) /\ TickStep) =>
                  jobs'[IndexOf(jobs, obj)] = Record(obj)]_vars

(* C3: a queued job that was deleted stays gone: get on its id answers      *)
(* not-found, and its start timer starts no periodic tick.                  *)
C3_DeletedQueuedStaysGone ==
    \A obj \in Objs :
        hist[obj] = <<"queued", "deleted">> =>
            /\ getJob(timers[obj].jobId).status = 404
            /\ timers[obj].kind # "interval"

(* C4: a record has results if and only if its status is completed.         *)
C4_ResultsIffCompleted ==
    \A i \in 1..Len(jobs) : HasResults(jobs[i]) <=> jobs[i].status = "completed"

(* C5: progress stays within [0, 100], never decreases, and changes only in *)
(* a tick callback that finds the job with status running.                  *)
C5_ProgressMonotone ==
    [][ /\ \A k \in 1..Len(jobs') :
            jobs'[k].progress >= 0 /\ jobs'[k].progress <= ProgressCap
        /\ \A i \in 1..Len(jobs), k \in 1..Len(jobs') :
            jobs[i].obj = jobs'[k].obj =>
               /\ jobs'[k].progress >= jobs[i].progress
               /\ jobs'[k].progress # jobs[i].progress =>
                     /\ jobs[i].status = "running"
                     /\ \E h \in DOMAIN timers, increment \in Increments :
                           /\ ProgressTick(h, increment)
                           /\ FindIndex(jobs, timers[h].jobId) = i]_vars

(* A tick has taken a job to the cap *)
C5_Witness ==
    \E i \in 1..Len(jobs) : jobs[i].progress = ProgressCap /\ jobs[i].status = "completed"

(* A delete request for the id of obj has been served: it cancelled or      *)
(* removed a record that carries that id                                    *)
DeleteApplied(obj) ==
    \E other \in Objs :
        /\ timers[other].jobId = timers[obj].jobId
        /\ {"cancelled", "deleted"} \cap Range(hist[other]) # {}

(* C6: a submitted job that is never deleted eventually runs, and then      *)
(* eventually is completed with progress 100 and results.                   *)
C6_EventuallyCompleted ==
    \A obj \in 1..MaxSubmits :
        /\ (obj \in Objs) ~>
              (obj \in Objs /\ (DeleteApplied(obj) \/ "running" \in Range(hist[obj])))
        /\ (obj \in Objs) ~>
              (obj \in Objs /\
                 (\/ DeleteApplied(obj)
                  \/ /\ Present(obj)
                     /\ Record(obj).status = "completed"
                     /\ Record(obj).progress = ProgressCap
                     /\ HasResults(Record(obj))))

(* The list request of the claims: GET /api/v1/jobs/list *)
ListResponse(query) == Respond("GET", JobsPath(Seg("list")), <<>>, query, "")

(* C7: list reports as total the number of jobs that match the filters      *)
(* before the limit is applied.                                             *)
C7_TotalBeforeLimit ==
    \A query \in Queries :
        (~LimitOf(query).nan /\ LimitOf(query).value >= 0) =>
            /\ listJobs(query).body.total = Len(FilteredJobs(jobs, query))
            /\ Len(listJobs(query).body.jobs) <= LimitOf(query).value

(* C8: an absent limit and a limit that is not a number both behave as the  *)
(* default limit 50.                                                        *)
C8_LimitFallsBackToDefault ==
    \A query \in Queries :
        ("limit" \notin DOMAIN query \/ ParseInt(query.limit).nan) =>
            LET matches == FilteredJobs(jobs, query)
            IN listJobs(query).body.jobs
                  = SubSeq(matches, 1, Min(DefaultLimit, Len(matches)))

(* C9: a list request is served by the list handler and answered with       *)
(* total and jobs, never by the get handler with not-found.                 *)
C9_ListServedByListHandler ==
    \A query \in Queries :
        /\ ListResponse(query).handler = "listJobs"
        /\ ListResponse(query).status = 200

(* C10: the id assigned by a submit differs from the id of every job        *)
(* created earlier, deleted ones included.                                  *)
C10_IdsUnique ==
    \A h, k \in DOMAIN timers : h # k => timers[h].jobId # timers[k].jobId

----------------------------------------------------------------------------
(* What remains of the lifecycle properties in the runs where no two        *)
(* submissions were given the same id                                       *)

UniqueIds_StatusLifecycle == C10_IdsUnique => C1_StatusLifecycle

UniqueIds_DeletedQueuedStaysGone == C10_IdsUnique => C3_DeletedQueuedStaysGone

UniqueIds_ResultsIffCompleted == C10_IdsUnique => C4_ResultsIffCompleted

UniqueIds_CancelledFrozen ==
    [][C10_IdsUnique =>
         \A obj \in Objs :
            ("cancelled" \in Range(hist[obj]) /\ Present(obj) /\ TickStep) =>
                  jobs'[IndexOf(jobs, obj)] = Record(obj)]_vars

UniqueIds_EventuallyCompleted == <>(~C10_IdsUnique) \/ C6_EventuallyCompleted

----------------------------------------------------------------------------
(* No handler and no callback writes the status failed *)
NoJobFailed ==
    /\ \A i \in 1..Len(jobs) : jobs[i].status # "failed"
    /\ stats.body.failed = 0

(* C11: the status failed is reachable: a running job has a step that takes *)
(* it to failed.                                                            *)
C11_FailedReachable ==
    \A obj \in Objs :
        (Present(obj) /\ Record(obj).status = "running") =>
            ENABLED (Next /\ \E k \in 1..Len(jobs') :
                                jobs'[k].obj = obj /\ jobs'[k].status = "failed")

----------------------------------------------------------------------------
(* Bodies the submit handler rejects: a field missing or empty *)
InvalidBodies ==
    {<<>>, [toolkit |-> "retrosynthesis"], [config |-> "config"],
     [toolkit |-> "", config |-> "config"], [toolkit |-> "retrosynthesis", config |-> ""]}

(* Path segments that may stand where the route expects a job id *)
RequestedIds == JobIds \cup {Seg("list"), Seg("nosuchjob")}

Absent(jobId) == \A i \in 1..Len(jobs) : jobs[i].id # jobId

(* An error response that left the registry and the timers as they were *)
Refused(out, handler, status) ==
    /\ out.handler = handler
    /\ out.status = status
    /\ out.message # ""
    /\ out.jobs = jobs
    /\ out.timers = timers

(* C12: a submit request that lacks toolkit or config, and a get or delete *)
(* request for an id that no record has, are answered with an error and    *)
(* leave the registry (contents and order) and the timers unchanged.       *)
C12_ErrorsChangeNothing ==
    /\ \A body \in InvalidBodies, suffix \in RandomSuffixes :
           Refused(Respond("POST", JobsPath(Seg("submit")), body, <<>>, suffix),
                   "submitJob", 400)
    /\ \A jobId \in RequestedIds :
           Absent(jobId) =>
               /\ Refused(Respond("GET", JobsPath(jobId), <<>>, <<>>, ""), "getJob", 404)
               /\ Refused(Respond("DELETE", JobsPath(jobId), <<>>, <<>>, ""),
                          "deleteJob", 404)

(* Two records, one of them running under a live interval timer, and an id *)
(* of the request alphabet that no record has                              *)
C12_Witness ==
    /\ Len(jobs) = 2
    /\ \E h \in DOMAIN timers : timers[h].kind = "interval"
    /\ \E i \in 1..Len(jobs) : jobs[i].status = "running"
    /\ \E jobId \in JobIds : Absent(jobId)

----------------------------------------------------------------------------
(* A step of a submit request that was accepted: the only step that        *)
(* registers a timer                                                       *)
SubmitStep == Len(timers') = Len(timers) + 1

QueuedBefore == Cardinality({i \in 1..Len(jobs) : jobs[i].status = "queued"})

(* C13: an accepted submit appends exactly one record to the registry; the *)
(* record is queued with progress 0, started_at and completed_at null, and *)
(* queue_position one more than the number of queued jobs before it; no    *)
(* later step changes a record's queue_position.                           *)
C13_SubmitAppendsQueued ==
    [][ /\ SubmitStep =>
               /\ Len(jobs') = Len(jobs) + 1
               /\ SubSeq(jobs', 1, Len(jobs)) = jobs
               /\ LET job == jobs'[Len(jobs')]
                  IN /\ job.status = "queued"
                     /\ job.progress = 0
                     /\ job.started_at = Null
                     /\ job.completed_at = Null
                     /\ job.queue_position = QueuedBefore + 1
        /\ ~SubmitStep => Len(jobs') <= Len(jobs)
        /\ \A i \in 1..Len(jobs), k \in 1..Len(jobs') :
               jobs'[k].obj = jobs[i].obj =>
                   jobs'[k].queue_position = jobs[i].queue_position
      ]_vars

(* The second job was submitted when no job was queued, and the first has  *)
(* gone through its whole life with its position kept                      *)
C13_Witness ==
    /\ Len(jobs) = 2
    /\ jobs[2].obj = 2
    /\ jobs[2].queue_position = 1
    /\ jobs[1].status = "completed"
    /\ jobs[1].queue_position = 1

----------------------------------------------------------------------------
(* Queries without a limit: each filter absent, empty, or a value *)
FilterQueries ==
    {<<>>} \cup [status : Statuses \cup {""}]
           \cup [toolkit : Toolkits \cup {"", "docking"}]
           \cup [status : Statuses \cup {""}, toolkit : Toolkits \cup {"", "docking"}]

Given(query, field) == field \in DOMAIN query

(* The records that equal every filter field the query gives *)
Matching(query) ==
    {j \in Range(jobs) :
        /\ Given(query, "status") => j.status = query.status
        /\ Given(query, "toolkit") => j.toolkit = query.toolkit}

(* The records that equal every filter field the query gives a value for *)
MatchingNonEmpty(query) ==
    {j \in Range(jobs) :
        /\ (Given(query, "status") /\ query.status # "") => j.status = query.status
        /\ (Given(query, "toolkit") /\ query.toolkit # "") => j.toolkit = query.toolkit}

(* listed holds exactly the records of matching, each once, in the order   *)
(* of their submission                                                     *)
ExactlyInSubmissionOrder(listed, matching) ==
    /\ Range(listed) = matching
    /\ \A i, k \in 1..Len(listed) : i < k => listed[i].obj < listed[k].obj

(* C14: a list request is answered with exactly the jobs whose status      *)
(* equals the given status and whose toolkit equals the given toolkit, an  *)
(* absent filter matching every job, in the order of submission, also      *)
(* after deletions.                                                        *)
C14_ListFilters ==
    \A query \in FilterQueries :
        LET out == ListResponse(query)
        IN /\ out.status = 200
           /\ ExactlyInSubmissionOrder(out.body.jobs, Matching(query))

(* The same statement about the list handler itself, which no request      *)
(* reaches: it fails for a filter given as the empty string                *)
ListHandler_ExactWhenGiven ==
    \A query \in FilterQueries :
        ExactlyInSubmissionOrder(listJobs(query).body.jobs, Matching(query))

(* What the list handler computes: an empty filter counts as absent *)
ListHandler_ExactWhenNonEmpty ==
    \A query \in FilterQueries :
        ExactlyInSubmissionOrder(listJobs(query).body.jobs, MatchingNonEmpty(query))

----------------------------------------------------------------------------
(* Runs with up to MaxBatch submissions of one toolkit, for the statistics *)
(* of registries of three records.  Every step is a step of the handlers   *)
(* and callbacks above; there is no delete request, the requests that     *)
(* only read are left to the stats request, and the whole run lies within  *)
(* one millisecond of the clock.                                           *)

BatchHandle(method, path, body, suffix) ==
    LET out == Respond(method, path, body, <<>>, suffix)
    IN /\ Len(out.timers) <= MaxBatch
       /\ jobs' = out.jobs
       /\ timers' = out.timers
       /\ hist' = Observe(hist, jobs', Len(timers'))
       /\ UNCHANGED now

BatchSubmit(suffix) ==
    BatchHandle("POST", JobsPath(Seg("submit")),
                [toolkit |-> "retrosynthesis", config |-> "config"], suffix)

BatchStats == BatchHandle("GET", ApiV1(<<Seg("stats")>>), <<>>, "")

(* Outcomes of Math.random() for three submissions in one millisecond *)
BatchSuffixes == RandomSuffixes \cup {"m5q2"}

StatsNext ==
    \/ \E suffix \in BatchSuffixes : BatchSubmit(suffix)
    \/ BatchStats
    \/ \E h \in 1..Len(timers) : StartTimer(h)
    \/ \E h \in 1..Len(timers) : ProgressTick(h, MaxIncrement - 1)

StatsSpec == Init /\ [][StatsNext]_vars

StatsResponse == Respond("GET", ApiV1(<<Seg("stats")>>), <<>>, <<>>, "")

Count(status) == Cardinality({i \in 1..Len(jobs) : jobs[i].status = status})

(* The counts of the stats response are those of the registry *)
StatsCounts(body) ==
    /\ body.total_jobs = Len(jobs)
    /\ body.completed = Count("completed")
    /\ body.running = Count("running")
    /\ body.queued = Count("queued")
    /\ body.failed = Count("failed")

(* C15 as stated: the counts are those of the registry; success_rate is    *)
(* 100 for the empty registry and otherwise completed / total * 100 (here  *)
(* in hundredths of a percent).                                            *)
C15_StatsExactRate ==
    /\ StatsResponse.handler = "stats"
    /\ StatsCounts(StatsResponse.body)
    /\ Len(jobs) = 0 => StatsResponse.body.success_rate = 100 * 100
    /\ Len(jobs) > 0 =>
           StatsResponse.body.success_rate * Len(jobs) = Count("completed") * 100 * 100

Abs(x) == IF x < 0 THEN 0 - x ELSE x

(* C15 amended: the counts are those of the registry; success_rate is 100  *)
(* for the empty registry and otherwise completed / total * 100 rounded to *)
(* two decimal places: it differs from the quotient by at most half a      *)
(* hundredth.                                                              *)
C15_StatsRoundedRate ==
    /\ StatsResponse.handler = "stats"
    /\ StatsResponse.status = 200
    /\ StatsCounts(StatsResponse.body)
    /\ Len(jobs) = 0 => StatsResponse.body.success_rate = 100 * 100
    /\ Len(jobs) > 0 =>
           2 * Abs(StatsResponse.body.success_rate * Len(jobs)
                     - Count("completed") * 100 * 100) <= Len(jobs)

(* Three records, two of them completed and one running: the rate 66.67   *)
(* is not the quotient                                                     *)
C15_Witness ==
    /\ Len(jobs) = 3
    /\ Count("completed") = 2
    /\ Count("running") = 1
    /\ StatsResponse.body.success_rate = 6667

----------------------------------------------------------------------------
(* The job of submission h has ended: cancelled, completed, or deleted *)
Ended(h) == StatusOf(jobs, h) \in {"cancelled", "completed", "deleted"}

(* A run of the tick callback of submission h on an ended job changes no   *)
(* record and clears the interval; a cleared interval stays cleared        *)
TearsDown(h) ==
    /\ \A increment \in Increments :
           (Ended(h) /\ ProgressTick(h, increment)) =>
               /\ jobs' = jobs
               /\ timers'[h].kind = "cleared"
    /\ timers[h].kind = "cleared" => timers'[h].kind = "cleared"

(* C16: once a job with a started tick is cancelled, deleted or completed, *)
(* its tick callback runs at most once more; that run changes no record    *)
(* and tears the job's periodic timer down for good.                       *)
C16_EndedTickTearsDown ==
    [][\A h \in DOMAIN timers : TearsDown(h)]_vars

(* C16 holds of the steps taken while the ids differ *)
UniqueIds_EndedTickTearsDown ==
    [][C10_IdsUnique => \A h \in DOMAIN timers : TearsDown(h)]_vars

----------------------------------------------------------------------------
(* The record of the same submission before and after a step keeps a       *)
(* timestamp that was set                                                  *)
KeepsTimestamps(i, k) ==
    /\ jobs[i].started_at # Null => jobs'[k].started_at = jobs[i].started_at
    /\ jobs[i].completed_at # Null => jobs'[k].completed_at = jobs[i].completed_at

(* started_at is set by the change from queued to running and completed_at *)
(* by the change from running to completed, and by no other step           *)
SetAtTransition(i, k) ==
    /\ jobs'[k].started_at # jobs[i].started_at =>
           jobs[i].status = "queued" /\ jobs'[k].status = "running"
    /\ jobs'[k].completed_at # jobs[i].completed_at =>
           jobs[i].status = "running" /\ jobs'[k].status = "completed"
    /\ (jobs[i].status = "queued" /\ jobs'[k].status = "running") =>
           jobs'[k].started_at # Null
    /\ (jobs[i].status = "running" /\ jobs'[k].status = "completed") =>
           jobs'[k].completed_at # Null

WrittenOnce ==
    \A i \in 1..Len(jobs), k \in 1..Len(jobs') :
        jobs'[k].obj = jobs[i].obj => KeepsTimestamps(i, k) /\ SetAtTransition(i, k)

(* C17: started_at is written exactly once, when the job goes from queued  *)
(* to running, and completed_at exactly once, when it goes from running to *)
(* completed; no later step overwrites either.                             *)
C17_TimestampsWrittenOnce == [][WrittenOnce]_vars

(* C17 holds of the steps taken while the ids differ *)
UniqueIds_TimestampsWrittenOnce == [][C10_IdsUnique => WrittenOnce]_vars

----------------------------------------------------------------------------
(* The step is a run of the start or of the tick callback of submission h *)
CallbackStep(h) ==
    \/ StartTimer(h)
    \/ \E increment \in Increments : ProgressTick(h, increment)

(* The registry keeps its length and its order, and every record whose id  *)
(* is not jobId is as it was                                               *)
OnlyRecordsOf(jobId) ==
    /\ Len(jobs') = Len(jobs)
    /\ \A i \in 1..Len(jobs) :
           /\ jobs'[i].obj = jobs[i].obj
           /\ jobs'[i].id = jobs[i].id
           /\ jobs[i].id # jobId => jobs'[i] = jobs[i]

----------------------------------------------------------------------------
(* The fields that go with each status *)
Consistent(job) ==
    /\ job.status = "queued" =>
           job.progress = 0 /\ job.started_at = Null /\ job.completed_at = Null
    /\ job.status \in {"running", "cancelled"} =>
           job.started_at # Null /\ job.completed_at = Null
    /\ job.status = "completed" =>
           /\ job.progress = ProgressCap
           /\ job.started_at # Null
           /\ job.completed_at # Null

(* C19: a queued record has progress 0 and neither timestamp; a running or *)
(* cancelled record has started_at and no completed_at; a completed record *)
(* has progress 100 and both timestamps.                                   *)
C19_FieldsFitStatus == \A i \in 1..Len(jobs) : Consistent(jobs[i])

(* C19 holds of the records written while the ids differ: a state in which *)
(* every record fits its status and the ids differ is followed by one in   *)
(* which every record fits its status                                      *)
UniqueIds_FieldsFitStatus ==
    [][(C10_IdsUnique /\ C19_FieldsFitStatus) =>
           \A k \in 1..Len(jobs') : Consistent(jobs'[k])]_vars

----------------------------------------------------------------------------
DeleteResponse(jobId) == Respond("DELETE", JobsPath(jobId), <<>>, <<>>, "")

(* The registry without its i-th record *)
Without(js, i) == [k \in 1..(Len(js) - 1) |-> IF k < i THEN js[k] ELSE js[k + 1]]

(* The first delete, on a running job: the answer is cancelled and the     *)
(* record stays, with status cancelled                                     *)
FirstDelete(jobId) ==
    LET i == FindIndex(jobs, jobId)
        out == DeleteResponse(jobId)
    IN (i # 0 /\ jobs[i].status = "running") =>
           /\ out.status = 200
           /\ out.message = "Job cancelled"
           /\ Len(out.jobs) = Len(jobs)
           /\ out.jobs[i].status = "cancelled"
           /\ \A k \in 1..Len(jobs) : k # i => out.jobs[k] = jobs[k]

(* The second delete, on the cancelled job: the answer is deleted, the     *)
(* record is gone, and the id is one that a third delete does not find     *)
SecondDelete(jobId) ==
    LET i == FindIndex(jobs, jobId)
        out == DeleteResponse(jobId)
    IN (i # 0 /\ jobs[i].status = "cancelled") =>
           /\ out.status = 200
           /\ out.message = "Job deleted"
           /\ out.jobs = Without(jobs, i)
           /\ \A k \in 1..Len(out.jobs) : out.jobs[k].id # jobId

(* The third delete, on an id that no record has *)
ThirdDelete(jobId) ==
    LET out == DeleteResponse(jobId)
    IN Absent(jobId) => out.status = 404 /\ out.message = "Job not found"

(* A cancelled record is in the total and in none of the four counts *)
CancelledInTotalOnly ==
    LET body == StatsResponse.body
    IN /\ body.total_jobs = Len(jobs)
       /\ body.total_jobs - (body.completed + body.running + body.queued + body.failed)
              = Count("cancelled")

(* C20: on a running job the first delete answers cancelled and keeps the  *)
(* record, the second removes it and answers deleted, the third answers    *)
(* not-found; until it is removed the cancelled record is counted in the   *)
(* stats total and in none of the four status counts.                      *)
C20_DeleteThrice ==
    /\ \A jobId \in JobIds :
           FirstDelete(jobId) /\ SecondDelete(jobId) /\ ThirdDelete(jobId)
    /\ CancelledInTotalOnly

(* C20 holds in the states in which the ids differ *)
UniqueIds_DeleteThrice == C10_IdsUnique => C20_DeleteThrice

====
